---------------------------- MODULE Spec2Model ----------------------------
(***************************************************************************)
(* Model of terraform-provider-kclx: the provider's Configure and the      *)
(* kcl_exec resource's Configure / Create / Read / Update / Delete         *)
(* (src/internal/provider/provider.go).                                    *)
(*                                                                         *)
(* Strings the code formats, joins or parses are sequences of one-         *)
(* character strings, so that Sprintf, the "%v" rendering of a []string    *)
(* and the KEY=VALUE reading of an environment entry are computed, not     *)
(* assumed.  Diagnostic titles are never taken apart and stay TLA+ strings.*)
(* An optional (nullable) attribute is <<>> when null and <<v>> otherwise. *)
(***************************************************************************)
EXTENDS Integers, Sequences, FiniteSets, TLC

VARIABLES
    kclPathConfig,  \* the provider block's kcl_path (req.Config), nullable
    KclPath,        \* kclProvider.KclPath
    resourceData,   \* provider Configure has published p as ResourceData
    rprovider,      \* per resource instance: KclExecResource.provider # nil
    state,          \* per resource instance: the persisted state, nullable
    pc,             \* per resource instance: where its Create call stands
    frame,          \* per resource instance: the locals of a Create in flight
    resp,           \* per resource instance: diagnostics of its last call
    fs,             \* the paths that exist on the filesystem
    hist            \* per resource instance: how its most recent Create
                    \* ended, and whether a Delete has run since

vars == <<kclPathConfig, KclPath, resourceData, rprovider, state, pc, frame,
          resp, fs, hist>>

----------------------------------------------------------------------------
(* Nullable values *)

Null == <<>>

Some(v) == <<v>>

IsNull(x) == x = <<>>

ValueOf(x) == x[1]

----------------------------------------------------------------------------
(* Strings *)

(* the literal command name kcl *)
S_kcl == <<"k", "c", "l">>

(* a configured kcl_path, such as /usr/local/bin/kcl: here /k *)
S_override == <<"/", "k">>

RECURSIVE JoinSpace(_)
(* the elements separated by one space, as fmt prints a slice's elements *)
JoinSpace(ss) ==
    IF ss = <<>> THEN <<>>
    ELSE IF Len(ss) = 1 THEN ss[1]
    ELSE ss[1] \o <<" ">> \o JoinSpace(Tail(ss))

(* fmt's %v of a []string: the elements, space separated, in brackets *)
FormatV(ss) == <<"[">> \o JoinSpace(ss) \o <<"]">>

IsSpace(c) == c \in {" ", "\n", "\t", "\r"}

RECURSIVE TrimLeft(_)
TrimLeft(s) == IF s # <<>> /\ IsSpace(Head(s)) THEN TrimLeft(Tail(s)) ELSE s

RECURSIVE TrimRight(_)
TrimRight(s) ==
    IF s # <<>> /\ IsSpace(s[Len(s)])
    THEN TrimRight(SubSeq(s, 1, Len(s) - 1))
    ELSE s

(* strings.TrimSpace *)
TrimSpace(s) == TrimRight(TrimLeft(s))

(* crypto/sha256 truncated to 16 bytes and hex encoded.  The digest is     *)
(* taken to be collision free: distinct inputs give distinct digests, and  *)
(* the digest is kept apart from the string it was computed from.          *)
Sum256Hex16(s) == [sha256_16 |-> s]

(* every ordering of the elements of S *)
Orders(S) ==
    {o \in [1..Cardinality(S) -> S] : \A i, j \in 1..Cardinality(S) :
                                          o[i] = o[j] => i = j}

----------------------------------------------------------------------------
(* The process's surroundings *)

Resources == {"r1", "r2"}

(* the resource instance whose whole lifecycle is followed on its own *)
Managed == {"r1"}

(* os.Getwd, the base filepath.Abs resolves a relative path against *)
Cwd == <<"/", "w">>

(* os.Environ(): the ambient environment A=1, C=4 *)
Environ == << <<"A", "=", "1">>, <<"C", "=", "4">> >>

(* the one directory that exists: /w/d *)
InitFs == { <<"/", "w", "/", "d">> }

DefaultTimeout == 300

NoError == "ok"

----------------------------------------------------------------------------
(* Declared inputs *)

ProviderConfigs == {Null, Some(<<>>), Some(S_override)}

(* d is relative and exists under the working directory, /w/d is the same *)
(* directory named absolutely, /m does not exist                           *)
SourceDirs == { <<"d">>, <<"/", "w", "/", "d">>, <<"/", "m">> }

(* a null list element or map value: no string, as no character is "null" *)
NullElement == <<"null">>

(* the one argument "a b", the two arguments "a" and "b", a null argument *)
ArgLists ==
    { Null, Some(<< <<"a", " ", "b">> >>), Some(<< <<"a">>, <<"b">> >>),
      Some(<< NullElement >>) }

EnvMaps ==
    { Null,
      Some((<<"A">> :> <<"2">>) @@ (<<"B">> :> <<"3">>)),
      Some(<<"A", "=", "B">> :> <<"1">>),
      Some(<<"A">> :> NullElement) }

TriggerMaps == { Null, Some("t" :> "1"), Some("t" :> "2") }

MaxTimeout == 1

Timeouts == { Null } \cup { Some(t) : t \in 0..MaxTimeout }

(* the plans that declare source_dir as dir *)
PlansIn(dir) ==
    [source_dir : {dir}, args : ArgLists, triggers : TriggerMaps,
     timeout : Timeouts, environment : EnvMaps]

Plans == UNION {PlansIn(dir) : dir \in SourceDirs}

(* the plans of two resource instances whose ids are compared: the         *)
(* attributes that do not enter the id are held fixed                      *)
PairPlans ==
    [source_dir : { <<"d">> },
     args : { Some(<< <<"a", " ", "b">> >>), Some(<< <<"a">>, <<"b">> >>) },
     triggers : { Some("t" :> "1") }, timeout : { Null },
     environment : EnvMaps]

(* what the tool wrote to its combined output when it exits *)
RawOutput == <<" ", "o", "k", "\n">>

----------------------------------------------------------------------------
(* Create's pure steps *)

IsAbsPath(p) == p # <<>> /\ p[1] = "/"

(* filepath.Abs: an absolute path as it is, a relative one joined to the   *)
(* working directory; null when the working directory cannot be read.      *)
(* The declared paths are already clean, so Clean leaves them as they are. *)
Abs(p, getwdOk) ==
    IF IsAbsPath(p) THEN Some(p)
    ELSE IF ~getwdOk THEN Null
    ELSE IF p = <<>> THEN Some(Cwd)
    ELSE Some(Cwd \o <<"/">> \o p)

StatFindsAnything(absPath) == TRUE

(* os.Stat(absPath) does not report IsNotExist *)
StatFinds(absPath) == absPath \in fs

KclCommandSkipsEmptyCheck(r) == IF rprovider[r] THEN KclPath ELSE S_kcl

(* kclCommand: "kcl" unless the resource holds a provider with a non-empty path *)
KclCommand(r) == IF rprovider[r] /\ KclPath # <<>> THEN KclPath ELSE S_kcl

(* plan.Args.ElementsAs into []string: a null element cannot be converted *)
ArgsDecode(plan) ==
    IsNull(plan.args)
      \/ \A i \in 1..Len(ValueOf(plan.args)) : ValueOf(plan.args)[i] # NullElement

(* plan.Environment.ElementsAs into map[string]string, likewise *)
EnvDecodes(plan) ==
    IsNull(plan.environment)
      \/ \A k \in DOMAIN ValueOf(plan.environment) :
            ValueOf(plan.environment)[k] # NullElement

(* args: empty unless declared *)
ArgsOf(plan) == IF IsNull(plan.args) THEN <<>> ELSE ValueOf(plan.args)

(* the orders in which ranging over the decoded map can visit its keys *)
EnvOrders(plan) ==
    IF IsNull(plan.environment) THEN { <<>> }
    ELSE Orders(DOMAIN ValueOf(plan.environment))

EnvVarsOverridesFirst(plan, order) ==
    [i \in 1..Len(order) |->
        order[i] \o <<"=">> \o ValueOf(plan.environment)[order[i]]] \o Environ

(* envVars: os.Environ() followed by Sprintf("%s=%s", k, v) per map entry *)
EnvVars(plan, order) ==
    Environ \o [i \in 1..Len(order) |->
                   order[i] \o <<"=">> \o ValueOf(plan.environment)[order[i]]]

(* timeout in seconds: 300 unless declared *)
TimeoutOf(plan) ==
    IF IsNull(plan.timeout) THEN DefaultTimeout ELSE ValueOf(plan.timeout)

(* idInput := Sprintf("%s|%s|%v|%v", absPath, kclCommand, args, envVars) *)
IdInput(absPath, kclCommand, args, envVars) ==
    absPath \o <<"|">> \o kclCommand \o <<"|">> \o FormatV(args)
            \o <<"|">> \o FormatV(envVars)

(* plan.ID *)
IdOf(fr) == Sum256Hex16(IdInput(fr.Dir, fr.Path, fr.Args, fr.Env))


----------------------------------------------------------------------------
(* The resource schema, as the host's plan reads it *)

ConfigAttrs == {"source_dir", "args", "triggers", "timeout", "environment"}

(* the attributes whose PlanModifiers hold RequiresReplace() *)
RequiresReplace(attr) == attr = "source_dir"

Changed(prior, plan) == {a \in ConfigAttrs : prior[a] # plan[a]}

(* what the host does with an existing resource whose configuration is now *)
(* plan: nothing, Update in place, or Delete followed by Create            *)
HostPlanAction(prior, plan) ==
    IF Changed(prior, plan) = {} THEN "noop"
    ELSE IF \E a \in Changed(prior, plan) : RequiresReplace(a) THEN "replace"
    ELSE "update"

----------------------------------------------------------------------------
Init ==
    /\ kclPathConfig \in ProviderConfigs
    /\ KclPath = <<>>
    /\ resourceData = FALSE
    /\ rprovider = [r \in Resources |-> FALSE]
    /\ state = [r \in Resources |-> Null]
    /\ pc = [r \in Resources |-> "idle"]
    /\ frame = [r \in Resources |-> Null]
    /\ resp = [r \in Resources |-> NoError]
    /\ fs = InitFs
    /\ hist = [r \in Resources |-> [create |-> "none", deleted |-> FALSE]]

----------------------------------------------------------------------------
(* kclProvider.Configure.  The host configures a provider instance once.   *)
ProviderConfigure ==
    /\ ~resourceData
    /\ KclPath' = IF ~IsNull(kclPathConfig) THEN ValueOf(kclPathConfig)
                  ELSE KclPath
    /\ resourceData' = TRUE
    /\ UNCHANGED <<kclPathConfig, rprovider, state, pc, frame, resp, fs, hist>>

(* KclExecResource.Configure: ProviderData is nil until the provider has   *)
(* been configured, and is the *kclProvider after.                         *)
ResourceConfigure(r) ==
    /\ pc[r] = "idle"
    /\ rprovider' = IF resourceData THEN [rprovider EXCEPT ![r] = TRUE]
                    ELSE rprovider
    /\ UNCHANGED <<kclPathConfig, KclPath, resourceData, state, pc, frame,
                   resp, fs, hist>>

----------------------------------------------------------------------------
(* KclExecResource.Create *)

CreateFailsWithPlanStored(r, plan, title) ==
    /\ resp' = [resp EXCEPT ![r] = title]
    /\ hist' = [hist EXCEPT ![r] = [create |-> "failed", deleted |-> FALSE]]
    /\ pc' = [pc EXCEPT ![r] = "idle"]
    /\ frame' = [frame EXCEPT ![r] = Null]
    /\ state' = [state EXCEPT ![r] =
                   Some([source_dir |-> plan.source_dir, args |-> plan.args,
                         triggers |-> plan.triggers, timeout |-> plan.timeout,
                         environment |-> plan.environment,
                         id |-> Null, output |-> Null])]
    /\ UNCHANGED <<kclPathConfig, KclPath, resourceData, rprovider, fs>>

(* a return with an error diagnostic: resp.State is never set *)
CreateFails(r, plan, title) ==
    /\ resp' = [resp EXCEPT ![r] = title]
    /\ hist' = [hist EXCEPT ![r] = [create |-> "failed", deleted |-> FALSE]]
    /\ pc' = [pc EXCEPT ![r] = "idle"]
    /\ frame' = [frame EXCEPT ![r] = Null]
    /\ UNCHANGED <<kclPathConfig, KclPath, resourceData, rprovider, state, fs>>

(* the state Create sets: the plan with ID and Output filled in *)
NewState(fr) ==
    [source_dir |-> fr.plan.source_dir, args |-> fr.plan.args,
     triggers |-> fr.plan.triggers, timeout |-> fr.plan.timeout,
     environment |-> fr.plan.environment,
     id |-> Some(IdOf(fr)), output |-> Some(TrimSpace(RawOutput))]

(* err == nil: ID and Output are set and the plan becomes the state *)
CreateSucceeds(r, fr) ==
    /\ state' = [state EXCEPT ![r] = Some(NewState(fr))]
    /\ resp' = [resp EXCEPT ![r] = NoError]
    /\ hist' = [hist EXCEPT ![r] = [create |-> "ok", deleted |-> FALSE]]
    /\ pc' = [pc EXCEPT ![r] = "idle"]
    /\ frame' = [frame EXCEPT ![r] = Null]
    /\ UNCHANGED <<kclPathConfig, KclPath, resourceData, rprovider, fs>>

(* cmd.CombinedOutput() has returned *)
CombinedOutputReturns(r, fr, ok) ==
    IF ok THEN CreateSucceeds(r, fr)
    ELSE CreateFails(r, fr.plan, "KCL Execution Failed")

(* the process is started: Create blocks in cmd.CombinedOutput() *)
Launch(r, plan, absPath, order) ==
    /\ pc' = [pc EXCEPT ![r] = "running"]
    /\ frame' = [frame EXCEPT ![r] =
                   Some([plan |-> plan, Dir |-> absPath, Path |-> KclCommand(r),
                         Args |-> ArgsOf(plan), Env |-> EnvVars(plan, order),
                         timeout |-> TimeoutOf(plan), ok |-> FALSE])]
    /\ resp' = [resp EXCEPT ![r] = NoError]
    /\ UNCHANGED <<kclPathConfig, KclPath, resourceData, rprovider, state, fs,
                   hist>>

(* Create up to the start of the process.  getwdOk: the working directory  *)
(* can be read; startOk: the executable is found and the process starts.   *)
(* The range over envMap visits its keys in an order of the runtime's      *)
(* choosing.  A timeout that is not positive gives a context that is       *)
(* already done, and the command is then not started.  The host calls      *)
(* Create only for a resource that has no state.                           *)
CreateCall(r, plan, getwdOk, startOk) ==
    /\ pc[r] = "idle"
    /\ IsNull(state[r])
    /\ LET abs == Abs(plan.source_dir, getwdOk) IN
         IF IsNull(abs) THEN CreateFails(r, plan, "Path Resolution Error")
         ELSE IF ~StatFinds(ValueOf(abs))
              THEN CreateFails(r, plan, "Directory Not Found")
         ELSE IF ~ArgsDecode(plan) \/ ~EnvDecodes(plan)
              THEN CreateFails(r, plan, "Value Conversion Error")
         ELSE IF TimeoutOf(plan) <= 0 \/ ~startOk
              THEN CreateFails(r, plan, "KCL Execution Failed")
         ELSE \E order \in EnvOrders(plan) :
                 Launch(r, plan, ValueOf(abs), order)

(* Wait cannot return while a descendant of the process holds the output   *)
(* pipe open: the command sets no WaitDelay                                *)
BlockOnPipes(r, ok) ==
    /\ pc' = [pc EXCEPT ![r] = "waitio"]
    /\ frame' = [frame EXCEPT ![r] = Some([ValueOf(frame[r]) EXCEPT !.ok = ok])]
    /\ UNCHANGED <<kclPathConfig, KclPath, resourceData, rprovider, state,
                   resp, fs, hist>>

(* the process exits on its own, with status zero or not; orphan: it left  *)
(* a descendant that holds the output pipe                                 *)
ProcessExits(r, zero, orphan) ==
    /\ pc[r] = "running"
    /\ IF orphan THEN BlockOnPipes(r, zero)
       ELSE CombinedOutputReturns(r, ValueOf(frame[r]), zero)

(* the context's deadline passes first: the process is killed *)
DeadlineKills(r, orphan) ==
    /\ pc[r] = "running"
    /\ IF orphan THEN BlockOnPipes(r, FALSE)
       ELSE CombinedOutputReturns(r, ValueOf(frame[r]), FALSE)

(* the last descendant closes the pipe: the output copy ends, Wait returns *)
PipesClosed(r) ==
    /\ pc[r] = "waitio"
    /\ CombinedOutputReturns(r, ValueOf(frame[r]), ValueOf(frame[r]).ok)

----------------------------------------------------------------------------
(* KclExecResource.Read: nothing; the host keeps the state it passed in *)
Read(r) ==
    /\ pc[r] = "idle"
    /\ ~IsNull(state[r])
    /\ resp' = [resp EXCEPT ![r] = NoError]
    /\ UNCHANGED <<kclPathConfig, KclPath, resourceData, rprovider, state, pc,
                   frame, fs, hist>>

UpdateBodyApplies(r, plan) ==
    /\ state' = [state EXCEPT ![r] =
                   Some([ValueOf(state[r]) EXCEPT !.args = plan.args,
                                                 !.triggers = plan.triggers,
                                                 !.timeout = plan.timeout,
                                                 !.environment = plan.environment])]
    /\ resp' = [resp EXCEPT ![r] = NoError]
    /\ UNCHANGED <<kclPathConfig, KclPath, resourceData, rprovider, pc, frame,
                   fs, hist>>

(* KclExecResource.Update: the error diagnostic alone; the response's      *)
(* state stays the prior state the host put there                          *)
UpdateBody(r, plan) ==
    /\ resp' = [resp EXCEPT ![r] = "Update Not Supported"]
    /\ UNCHANGED <<kclPathConfig, KclPath, resourceData, rprovider, state, pc,
                   frame, fs, hist>>

(* the host calls Update when the plan changes an existing resource and no *)
(* changed attribute requires replacement                                  *)
Update(r, plan) ==
    /\ pc[r] = "idle"
    /\ ~IsNull(state[r])
    /\ HostPlanAction(ValueOf(state[r]), plan) = "update"
    /\ UpdateBody(r, plan)

DeleteBodyKeepsState(r) ==
    /\ resp' = [resp EXCEPT ![r] = NoError]
    /\ hist' = [hist EXCEPT ![r].deleted = TRUE]
    /\ UNCHANGED <<kclPathConfig, KclPath, resourceData, rprovider, state, pc,
                   frame, fs>>

(* KclExecResource.Delete: nothing; with no error diagnostic the host      *)
(* removes the state                                                       *)
DeleteBody(r) ==
    /\ state' = [state EXCEPT ![r] = Null]
    /\ resp' = [resp EXCEPT ![r] = NoError]
    /\ hist' = [hist EXCEPT ![r].deleted = TRUE]
    /\ UNCHANGED <<kclPathConfig, KclPath, resourceData, rprovider, pc, frame,
                   fs>>

Delete(r) ==
    /\ pc[r] = "idle"
    /\ ~IsNull(state[r])
    /\ DeleteBody(r)

----------------------------------------------------------------------------
(* the host's calls on the resource instances R with plans from P, and    *)
(* what the started processes do                                           *)
NextOver(R, P) ==
    \/ ProviderConfigure
    \/ \E r \in R : ResourceConfigure(r)
    \/ \E r \in R, plan \in P, getwdOk \in BOOLEAN, startOk \in BOOLEAN :
            CreateCall(r, plan, getwdOk, startOk)
    \/ \E r \in R, zero \in BOOLEAN, orphan \in BOOLEAN :
            ProcessExits(r, zero, orphan)
    \/ \E r \in R, orphan \in BOOLEAN : DeadlineKills(r, orphan)
    \/ \E r \in R : PipesClosed(r)
    \/ \E r \in R : Read(r)
    \/ \E r \in R, plan \in P : Update(r, plan)
    \/ \E r \in R : Delete(r)

(* one resource instance, every plan *)
Next == NextOver(Managed, Plans)

Spec == Init /\ [][Next]_vars

(* two resource instances side by side *)
NextPair == NextOver(Resources, PairPlans)

SpecPair == Init /\ [][NextPair]_vars

(* The deadline of a running command's context always comes, and the       *)
(* context then kills the process.  Nothing makes the process exit on its  *)
(* own, and nothing makes a descendant close the output pipe.              *)
FairSpec == Spec /\ WF_vars(\E orphan \in BOOLEAN : DeadlineKills("r1", orphan))

----------------------------------------------------------------------------
(* How the started process reads its environment vector *)

HasEq(e) == \E i \in 1..Len(e) : e[i] = "="

(* the place of the first "=" of an entry that has one *)
FirstEq(e) == CHOOSE i \in 1..Len(e) :
                  e[i] = "=" /\ \A j \in 1..(i - 1) : e[j] # "="

KeyOf(e) == SubSeq(e, 1, FirstEq(e) - 1)

ValOf(e) == SubSeq(e, FirstEq(e) + 1, Len(e))

(* the value of variable k: that of the last entry whose key is k *)
Lookup(env, k) ==
    LET at == {i \in 1..Len(env) : HasEq(env[i]) /\ KeyOf(env[i]) = k} IN
      IF at = {} THEN Null
      ELSE Some(ValOf(env[CHOOSE i \in at : \A j \in at : j <= i]))

AmbientKeys == {KeyOf(Environ[i]) : i \in 1..Len(Environ)}

InFlight(r) == pc[r] # "idle"

Present(r) == ~IsNull(state[r])

(* the declared environment map of the Create in flight, empty when null *)
Declared(r) ==
    IF IsNull(ValueOf(frame[r]).plan.environment) THEN <<>>
    ELSE ValueOf(ValueOf(frame[r]).plan.environment)

----------------------------------------------------------------------------
(* C1, as stated: after any sequence of calls, state exists if and only if *)
(* the most recent Create ran without error.                               *)
C1_StateIffLastCreateSucceeded ==
    \A r \in Resources : Present(r) <=> hist[r].create = "ok"

(* C1, amended: state exists if and only if the most recent Create ran     *)
(* without error and no Delete has run since; a Create that fails at any   *)
(* step leaves no state, and a state always holds both id and output.      *)
C1_StateIffCreatedAndNotDeleted ==
    \A r \in Resources :
       /\ Present(r) <=> (hist[r].create = "ok" /\ ~hist[r].deleted)
       /\ Present(r) => /\ ~IsNull(ValueOf(state[r]).id)
                        /\ ~IsNull(ValueOf(state[r]).output)

(* a Create whose process ran and failed has returned, leaving no state *)
C1_Witness ==
    \E r \in Resources :
       /\ hist[r].create = "failed"
       /\ resp[r] = "KCL Execution Failed"
       /\ ~Present(r)

(* C2: a change to a value of triggers on an existing resource is never    *)
(* answered by an Update call: it forces Delete and a fresh Create.        *)
C2_TriggersChangeNeverUpdates ==
    [][\A r \in Managed :
         Present(r) =>
           \A plan \in Plans :
              plan.triggers # ValueOf(state[r]).triggers => ~Update(r, plan)]_vars

(* C3: every Update call reports Update Not Supported, starts no process   *)
(* and leaves the persisted state as it was.                               *)
C3_UpdateAlwaysFails ==
    [][\A r \in Managed :
         \/ /\ resp'[r] = "Update Not Supported"
            /\ state' = state
            /\ pc' = pc
            /\ frame' = frame
         \/ \A plan \in Plans : ~Update(r, plan)]_vars

(* an Update has been answered on a resource that still has its state *)
C3_Witness ==
    \E r \in Resources : Present(r) /\ resp[r] = "Update Not Supported"

(* C4: two Create calls whose resolved tuples (working directory, command  *)
(* path, argument vector, environment vector) differ in any component get  *)
(* different id inputs and so different ids.                               *)
C4_IdInjective ==
    \A r1, r2 \in Resources :
       (InFlight(r1) /\ InFlight(r2)) =>
          LET f1 == ValueOf(frame[r1])
              f2 == ValueOf(frame[r2]) IN
            <<f1.Dir, f1.Path, f1.Args, f1.Env>> #
                 <<f2.Dir, f2.Path, f2.Args, f2.Env>>
              => IdOf(f1) # IdOf(f2)

(* C5: every Create that has started the tool eventually returns, whatever *)
(* the process does: the timeout bounds the call.                          *)
C5_CreateEventuallyReturns == InFlight("r1") ~> ~InFlight("r1")

(* C6: a Create whose source_dir resolves to a path that does not exist    *)
(* returns Directory Not Found, starts no process, creates nothing on the  *)
(* filesystem and persists no state.                                       *)
C6_MissingDirectoryFailsFirst ==
    [][\A r \in Managed :
         \/ InFlight(r) \/ Present(r)
         \/ /\ resp'[r] = "Directory Not Found"
            /\ pc'[r] = "idle"
            /\ IsNull(frame'[r])
            /\ fs' = fs
            /\ state' = state
         \/ \A dir \in SourceDirs, getwdOk \in BOOLEAN :
               (/\ ~IsNull(Abs(dir, getwdOk))
                /\ ValueOf(Abs(dir, getwdOk)) \notin fs)
               => \A plan \in PlansIn(dir), startOk \in BOOLEAN :
                     ~CreateCall(r, plan, getwdOk, startOk)]_vars

(* a Create has returned Directory Not Found and left no state *)
C6_Witness ==
    \E r \in Resources :
       /\ resp[r] = "Directory Not Found"
       /\ hist[r].create = "failed"
       /\ ~Present(r)
       /\ fs = InitFs

(* C7, as stated: in the environment vector of a started process every     *)
(* declared key reads as its declared value, and every ambient variable    *)
(* whose key is not declared reads as its ambient value.                   *)
C7_DeclaredOverrideAmbient ==
    \A r \in Resources :
       InFlight(r) =>
          LET env == ValueOf(frame[r]).Env IN
            /\ \A k \in DOMAIN Declared(r) :
                  Lookup(env, k) = Some(Declared(r)[k])
            /\ \A k \in AmbientKeys \ DOMAIN Declared(r) :
                  Lookup(env, k) = Lookup(Environ, k)

(* C7, amended: the same, when no declared key contains the character "=". *)
C7_DeclaredOverrideAmbientPlainKeys ==
    \A r \in Resources :
       (InFlight(r) /\ \A k \in DOMAIN Declared(r) : ~HasEq(k)) =>
          LET env == ValueOf(frame[r]).Env IN
            /\ SubSeq(env, 1, Len(Environ)) = Environ
            /\ Len(env) = Len(Environ) + Cardinality(DOMAIN Declared(r))
            /\ \A k \in DOMAIN Declared(r) :
                  Lookup(env, k) = Some(Declared(r)[k])
            /\ \A k \in AmbientKeys \ DOMAIN Declared(r) :
                  Lookup(env, k) = Lookup(Environ, k)

(* a process runs with ambient A=1, C=4 and declared A=2, B=3: it reads    *)
(* A=2, B=3, C=4                                                           *)
C7_Witness ==
    \E r \in Resources :
       /\ InFlight(r)
       /\ DOMAIN Declared(r) = { <<"A">>, <<"B">> }
       /\ Lookup(ValueOf(frame[r]).Env, <<"A">>) = Some(<<"2">>)
       /\ Lookup(ValueOf(frame[r]).Env, <<"B">>) = Some(<<"3">>)
       /\ Lookup(ValueOf(frame[r]).Env, <<"C">>) = Some(<<"4">>)

(* C8: every Delete call reports no error, starts no process and touches   *)
(* nothing outside the state; state appears only when a Create returns     *)
(* without error and, once there, changes only by Delete removing it.      *)
C8_DeleteSucceedsLifecycleBinary ==
    [][\A r \in Managed :
         /\ Delete(r) => /\ resp'[r] = NoError
                         /\ ~Present(r)'
                         /\ pc' = pc
                         /\ frame' = frame
                         /\ fs' = fs
         /\ (~Present(r) /\ Present(r)') => /\ InFlight(r)
                                            /\ ~InFlight(r)'
                                            /\ resp'[r] = NoError
         /\ (Present(r) /\ state'[r] # state[r]) => /\ ~Present(r)'
                                                    /\ Delete(r)]_vars

(* a resource that was created has been deleted *)
C8_Witness ==
    \E r \in Resources :
       /\ hist[r] = [create |-> "ok", deleted |-> TRUE]
       /\ ~Present(r)
       /\ resp[r] = NoError

(* the command the provider block's kcl_path asks for, for a resource that *)
(* holds the configured provider                                           *)
ConfiguredCommand(r) ==
    IF rprovider[r] /\ ~IsNull(kclPathConfig) /\ ValueOf(kclPathConfig) # <<>>
    THEN ValueOf(kclPathConfig)
    ELSE S_kcl

(* C9: the command of a started process is kcl when no override is in      *)
(* effect (no provider on the resource, kcl_path null or empty) and the    *)
(* configured kcl_path otherwise; the provider's path is what its          *)
(* Configure set and nothing else writes it.                               *)
C9_CommandIsOverrideOrKcl ==
    /\ \A r \in Resources :
          InFlight(r) => ValueOf(frame[r]).Path = ConfiguredCommand(r)
    /\ KclPath = IF resourceData /\ ~IsNull(kclPathConfig)
                 THEN ValueOf(kclPathConfig) ELSE <<>>
    /\ \A r \in Resources : rprovider[r] => resourceData

(* a process was started with the configured path, not with kcl *)
C9_Witness ==
    \E r \in Resources :
       /\ InFlight(r)
       /\ ValueOf(frame[r]).Path = S_override
       /\ kclPathConfig = Some(S_override)

(* C10: two Create calls with the same declared inputs, command path and   *)
(* working directory persist the same id.                                  *)
C10_SameInputsSameId ==
    \A r1, r2 \in Resources :
       (InFlight(r1) /\ InFlight(r2)) =>
          LET f1 == ValueOf(frame[r1])
              f2 == ValueOf(frame[r2]) IN
            (f1.plan = f2.plan /\ f1.Dir = f2.Dir /\ f1.Path = f2.Path)
              => IdOf(f1) = IdOf(f2)

============================================================================
